---- MODULE Spec2Model ----
(***************************************************************************)
(* Placement state machine of the HIDDEN AR point-cloud experience:        *)
(* bootstrap (init), asset load, capability query, the Enter-AR gate, the  *)
(* awaited WebXR session setup, the per-frame hit-test callback, the XR    *)
(* 'select' and 'end' handlers, placeTree and the uniform registry.        *)
(*                                                                         *)
(* Lengths are in centimetres (1.05 m = 105); registry scalars are in      *)
(* hundredths (3.0 = 300).  A JavaScript null reference to a pose is the   *)
(* empty tuple; other null references are the string "null".               *)
(***************************************************************************)
EXTENDS Integers, Sequences, FiniteSets, TLC

\* ----------------------------------------------------------------- bounds
MaxPoseIndex == 1
MaxTaps == 2
MaxTreeHeight == 2
MaxCentre == 1
MaxTail == 2
MaxPasses == 2
MaxVertices == 4
MaxPolls == 2
MaxNow == 7000

\* ------------------------------------------------------ program constants
FloorOffset == 105
ScaleTarget == 13
DefaultTreeHeight == 100
ColourSampleWindow == 30
ByteScale == 255
Footprint == 200

NullPose == <<>>
Origin == <<0, 0, 0>>

\* Surface poses the hit-test can report (position of pose.transform).
HitPoses == { <<50 * i, 10 * i - 120, 30 - 100 * i>> : i \in 0..MaxPoseIndex }

\* Bounding-box inputs of the loaded PLY: centre, largest axis, height.
Centres == { <<10 * i, 20 * i + 5, 0 - 10 * i>> : i \in 0..MaxCentre }
TreeHeights == { 100 * h : h \in 1..MaxTreeHeight }

\* The registry as declared: name |-> value.
RegistryDefaults ==
  [ uTime               |-> 0,
    uPointSize          |-> 300,
    uAmbientBrightness  |-> 30,
    uGlowIntensity      |-> 100,
    uGlowColour         |-> <<85, 95, 100>>,
    uRefractionStrength |-> 15,
    uBackgroundTex      |-> "null",
    uFlockTex           |-> "null",
    uFlockStrength      |-> 100,
    uAudioBass          |-> 0,
    uAudioMid           |-> 0,
    uAudioHigh          |-> 0,
    uTouchPos           |-> <<0, 0>>,
    uTouchActive        |-> 0,
    uHandPos            |-> << <<0, 0, 0>>, <<0, 0, 0>> >>,
    uHandPresence       |-> 0,
    uHandRadius         |-> 30,
    uFadeProgress       |-> 0,
    uTreeHeight         |-> DefaultTreeHeight,
    uEmissiveIntensity  |-> 100 ]

\* uniforms.<key> is an object ({ value }) exactly for the declared keys; a
\* write uniforms.<key>.value = v to any other key throws a TypeError.
HasUniform(reg, key) == key \in DOMAIN reg

SetUniform(reg, key, v) == [reg EXCEPT ![key] = v]

\* The FloatingAnimation sources: part_003, js/floating-animation.js,
\* part_004.
FloatVariants == {"absolute", "relative", "delayed"}

\* performance.now() when the page reaches the animation, and the steps by
\* which it advances between calls, in milliseconds.
StartTimes == {0, 500, 2000}
ClockSteps == {10, 500}

VARIABLES
  pc,                  \* where init() stands
  mode,                \* MODE, the ?mode= URL parameter
  navXR,               \* navigator.xr: "absent", "noRequest", "full"
  webxrOK,             \* result of isWebXRSupported()
  loadingText, arStatus,
  treeData,            \* "null", or the loader variant that produced it
  treePlaced,
  meshPos, meshScale, meshQuat,      \* points.position / scale / quaternion
  loadTransforms, placeTransforms,   \* writes to the mesh transform, by writer
  sceneChildren, anchorChildren,
  uniforms,
  fadeAnimationFrameId,
  clickListener, tapCount,
  startAttempts, requestSessionCalls,
  markerStarted,
  errorCount,          \* exceptions that reached the event loop uncaught
  setupStep,           \* where startWebXRSession() stands
  xrSession, sessionAlive,
  hitTestSource, hitTestCancelled,
  referenceSpace,
  reticle,             \* _reticle # null
  reticleVisible, reticlePos, reticleDisposed,
  currentHitPose,
  placed,
  selectListener, endListener, frameLoop,
  onSessionEndCalls,
  lastEvent,           \* the handler that ran last and the branch it took
  earlySelect,         \* a 'select' has arrived while there was no pose
  lostSelect,          \* ... while the pose of an earlier hit had been lost
  lastDraw,            \* the last renderer.render call: time refreshed or not
  fragmentShader,      \* which fragment source loadShaders fetched
  colorInput,          \* the colour attribute as the PLY delivered it
  colorArr,            \* geometry.attributes.color.array
  colourPasses,        \* how often the colour normalisation has run on it
  roles,               \* the particleRole array of the latest assignment
  prevRoles,           \* ... and of the assignment before it
  plyPositions,        \* the position attribute as the PLY delivered it
  positionArr,         \* geometry.attributes.position.array after the load
  posOffset,           \* the posOffset attribute; empty when there is none
  seekStep,            \* where waitForMarkerDetection() stands
  arToolkitSource, arToolkitContext,
  animFrameId,         \* _animFrameId; 0 is null
  tickPending,         \* a requested animation frame has not yet run tick()
  resizeHandler,       \* _resizeHandler # null
  resizeListening,     \* the window has the resize listener
  cameraTracks,        \* the tracks of the AR.js video stream
  canvasHidden,        \* canvas.style.display = 'none'
  resolveCount,        \* calls of the detection promise's resolve
  pollCount,           \* tick() runs that requested another frame
  floatVariant,        \* which FloatingAnimation source is loaded
  isActive, startTime, \* FloatingAnimation fields; -1 is null
  clockStart,          \* when this.clock was started
  lastFrameTime,
  nowMs,               \* performance.now()
  fadeFactor,          \* the fadeFactor of the latest update(), hundredths
  fadeAt               \* nowMs of the update() that computed it; -1 if none

appVars == <<pc, mode, navXR, webxrOK, loadingText, arStatus, clickListener,
             tapCount, startAttempts, requestSessionCalls, markerStarted>>
treeVars == <<treeData, treePlaced, meshPos, meshScale, meshQuat,
              loadTransforms, placeTransforms, anchorChildren, uniforms,
              fadeAnimationFrameId>>
sessionVars == <<setupStep, xrSession, sessionAlive, hitTestSource,
                 hitTestCancelled, referenceSpace, selectListener,
                 endListener, frameLoop, onSessionEndCalls>>
reticleVars == <<reticle, reticleVisible, reticlePos, reticleDisposed,
                 currentHitPose, placed>>
vars == <<appVars, treeVars, sessionVars, reticleVars, sceneChildren,
          errorCount, lastEvent, earlySelect, lostSelect, lastDraw,
          fragmentShader, colorInput, colorArr, colourPasses, roles,
          prevRoles, plyPositions, positionArr, posOffset, seekStep,
          arToolkitSource, arToolkitContext, animFrameId, tickPending,
          resizeHandler, resizeListening, cameraTracks, canvasHidden,
          resolveCount, pollCount, floatVariant, isActive, startTime,
          clockStart, lastFrameTime, nowMs, fadeFactor, fadeAt>>

\* The attributes of the loaded geometry.  Spec does not follow their
\* contents; LoaderSpec does.
geometryVars == <<colorInput, colorArr, colourPasses, roles, prevRoles>>

\* What only the 'select' listener records.
selectHistory == <<earlySelect, lostSelect>>

\* The vertex buffers of the loaded geometry.
bufferVars == <<plyPositions, positionArr, posOffset>>

\* The state of marker-tracking.js during the marker seek.
seekVars == <<seekStep, arToolkitSource, arToolkitContext, animFrameId,
              tickPending, resizeHandler, resizeListening, cameraTracks,
              canvasHidden, resolveCount, pollCount>>

\* A FloatingAnimation instance and the page's clock.
floatVars == <<floatVariant, isActive, startTime, clockStart, lastFrameTime,
               nowMs, fadeFactor, fadeAt>>

\* What the placement flow never touches.
extVars == <<seekVars, floatVars>>

\* What only the asset load writes.
loadedVars == <<fragmentShader, geometryVars, bufferVars>>

Event(kind, detail) == [kind |-> kind, detail |-> detail]

\* The text of the #ar-status line: a fixed text and, for a failure, the
\* message of the error appended to it.
Status(text, message) == [text |-> text, message |-> message]

InitApp ==
  /\ pc = "load"
  /\ mode \in {"auto", "marker"}
  /\ navXR \in {"absent", "noRequest", "full"}
  /\ webxrOK = FALSE
  /\ loadingText = "" /\ arStatus = Status("", "")
  /\ treeData = "null" /\ treePlaced = FALSE
  /\ meshPos = Origin /\ meshScale = 100 /\ meshQuat = <<0, 0, 0, 1>>
  /\ loadTransforms = 0 /\ placeTransforms = 0
  /\ sceneChildren = {} /\ anchorChildren = {}
  /\ uniforms = RegistryDefaults
  /\ fadeAnimationFrameId = 0
  /\ clickListener = FALSE /\ tapCount = 0
  /\ startAttempts = 0 /\ requestSessionCalls = 0
  /\ markerStarted = FALSE
  /\ errorCount = 0
  /\ setupStep = "idle"
  /\ xrSession = "null" /\ sessionAlive = FALSE
  /\ hitTestSource = "null" /\ hitTestCancelled = FALSE
  /\ referenceSpace = "null"
  /\ reticle = FALSE /\ reticleVisible = FALSE
  /\ reticlePos = Origin /\ reticleDisposed = FALSE
  /\ currentHitPose = NullPose
  /\ placed = FALSE
  /\ selectListener = FALSE /\ endListener = FALSE /\ frameLoop = FALSE
  /\ onSessionEndCalls = 0
  /\ lastEvent = Event("none", "")
  /\ earlySelect = FALSE /\ lostSelect = FALSE
  /\ lastDraw = "none"
  /\ fragmentShader = "none"
  /\ plyPositions = <<>> /\ positionArr = <<>> /\ posOffset = <<>>
  /\ seekStep = "idle"
  /\ arToolkitSource = "null" /\ arToolkitContext = "null"
  /\ animFrameId = 0 /\ tickPending = FALSE
  /\ resizeHandler = FALSE /\ resizeListening = FALSE
  /\ cameraTracks = "none" /\ canvasHidden = FALSE
  /\ resolveCount = 0 /\ pollCount = 0
  /\ isActive = FALSE /\ startTime = -1 /\ clockStart = -1
  /\ lastFrameTime = -1
  /\ fadeFactor = 0 /\ fadeAt = -1

\* The placement flow runs with the FloatingAnimation source on disk; the
\* page's clock plays no part in it.
NoAnimation == floatVariant = "relative" /\ nowMs = 0

Init ==
  /\ InitApp /\ NoAnimation
  /\ colorInput = <<>> /\ colorArr = <<>> /\ colourPasses = 0
  /\ roles = <<>> /\ prevRoles = <<>>

\* ------------------------------------------------------------ asset load
\* loadPointCloud, mesh-level variant: raw vertices, uOpacity = 0, then the
\* centring offset and the uniform scale on the mesh.  The result is the
\* record of what the call leaves behind, or threw = TRUE.
LoadMeshLevel(reg, centre, maxAxis) ==
  IF ~HasUniform(reg, "uOpacity")
  THEN [threw |-> TRUE, reg |-> reg, pos |-> Origin, scale |-> 100, writes |-> 0]
  ELSE [threw |-> FALSE,
        reg |-> SetUniform(reg, "uOpacity", 0),
        pos |-> <<0 - centre[1], 0 - centre[2], 0 - centre[3]>>,
        scale |-> (ScaleTarget * 100) \div maxAxis,
        writes |-> 1]

\* loadPointCloud, baked variant: scale and centring are written into the
\* vertex buffer, the mesh transform is left at its identity; uFadeProgress
\* and uTreeHeight are written to the registry.
LoadBaked(reg, height) ==
  IF ~HasUniform(reg, "uFadeProgress") \/ ~HasUniform(reg, "uTreeHeight")
  THEN [threw |-> TRUE, reg |-> reg, pos |-> Origin, scale |-> 100, writes |-> 0]
  ELSE [threw |-> FALSE,
        reg |-> SetUniform(SetUniform(reg, "uFadeProgress", 0), "uTreeHeight", height),
        pos |-> Origin, scale |-> 100, writes |-> 0]

\* The vertices PLYLoader delivers, reduced to the two corners of their
\* bounding box: a cube of the given edge around the given centre.
PlyVertices(centre, edge) ==
  << <<centre[1] - edge \div 2, centre[2] - edge \div 2, centre[3] - edge \div 2>>,
     <<centre[1] + edge \div 2, centre[2] + edge \div 2, centre[3] + edge \div 2>> >>

\* bbox.min.y and size.y of a vertex buffer.
MinY(verts) ==
  CHOOSE y \in {verts[i][2] : i \in DOMAIN verts} :
    \A i \in DOMAIN verts : y <= verts[i][2]

MaxY(verts) ==
  CHOOSE y \in {verts[i][2] : i \in DOMAIN verts} :
    \A i \in DOMAIN verts : y >= verts[i][2]

SizeY(verts) == MaxY(verts) - MinY(verts)

\* scaleFactor, in hundredths.
ScaleFactor(maxHorizontal) ==
  IF maxHorizontal > 0 THEN (Footprint * 100) \div maxHorizontal ELSE 100

\* The baked variant's loop over the position array: every vertex is centred
\* horizontally, based at Y = 0 and scaled, in place.
BakePositions(verts, centre, maxHorizontal) ==
  LET s == ScaleFactor(maxHorizontal)
      minY == MinY(verts)
  IN [i \in DOMAIN verts |->
        << ((verts[i][1] - centre[1]) * s) \div 100,
           ((verts[i][2] - minY) * s) \div 100,
           ((verts[i][3] - centre[3]) * s) \div 100 >>]

\* The mesh-level variant's posOffset attribute: one zero triple per vertex.
ZeroOffsets(verts) == [i \in DOMAIN verts |-> Origin]

\* geometry.attributes.position.array when loadPointCloud returns: the
\* mesh-level variant never writes it, the baked variant rewrites all of it.
LoadedPositions(variant, centre, edge) ==
  IF variant = "mesh" THEN PlyVertices(centre, edge)
  ELSE BakePositions(PlyVertices(centre, edge), centre, edge)

\* The posOffset attribute when loadPointCloud returns: the baked variant
\* sets none.
LoadedOffsets(variant, centre, edge) ==
  IF variant = "mesh" THEN ZeroOffsets(PlyVertices(centre, edge)) ELSE <<>>

LoadResult(variant, centre, height) ==
  IF variant = "mesh" THEN LoadMeshLevel(uniforms, centre, height \div 100)
  ELSE LoadBaked(uniforms, SizeY(LoadedPositions(variant, centre, height)))

\* The uniform names the vertex shader declares.
VertexUniforms == {"uPointSize", "uFadeProgress", "uTreeHeight", "uTime"}

\* The fragment sources pointCloud.frag holds, and the uniform names each
\* declares.
FragmentSources == {"emissive", "glow"}

FragmentUniforms(source) ==
  IF source = "emissive"
  THEN {"uEmissiveIntensity", "uGlowIntensity", "uAmbientBrightness",
        "uRefractionStrength", "uBackgroundTex", "uTime"}
  ELSE IF source = "glow"
  THEN {"glowIntensity", "glowRadius", "uOpacity", "xrLightColor",
        "xrLightIntensity"}
  ELSE {}

\* init(): what follows the await of loadAssets().  The catch shows the
\* static string and returns; otherwise init goes on to the capability query.
\* The same step with the return left out of the catch.
AfterLoad_Continues(failed) == "loaded"

AfterLoad(failed) == IF failed THEN "halted" ELSE "loaded"

\* init(): Phase 0.  A rejected fetch (PLY or shader) or an exception in the
\* loader lands in init's catch, which shows the static string and returns.
LoadAssets ==
  /\ UNCHANGED <<selectHistory, lastDraw, geometryVars, extVars>>
  /\ pc = "load"
  /\ \E variant \in {"mesh", "baked"}, fetch \in {"ok", "plyFail", "shaderFail"},
        centre \in Centres, height \in TreeHeights, frag \in FragmentSources :
       LET r == LoadResult(variant, centre, height)
           failed == fetch # "ok" \/ r.threw
           cause == IF fetch # "ok" THEN fetch
                    ELSE IF r.threw THEN "threw" ELSE "ok"
       IN
       /\ pc' = AfterLoad(failed)
       /\ lastEvent' = Event("load", cause)
       /\ IF failed
          THEN
            /\ loadingText' = "Failed to load assets"
            /\ UNCHANGED <<treeData, meshPos, meshScale, loadTransforms,
                           uniforms, fragmentShader, bufferVars>>
          ELSE
            /\ loadingText' = "Assets loaded"
            /\ treeData' = variant
            /\ fragmentShader' = frag
            /\ plyPositions' = PlyVertices(centre, height)
            /\ positionArr' = LoadedPositions(variant, centre, height)
            /\ posOffset' = LoadedOffsets(variant, centre, height)
            /\ meshPos' = r.pos
            /\ meshScale' = r.scale
            /\ loadTransforms' = r.writes
            /\ uniforms' = r.reg
  /\ UNCHANGED <<mode, navXR, webxrOK, arStatus, clickListener, tapCount,
                 startAttempts, requestSessionCalls, markerStarted,
                 treePlaced, meshQuat, placeTransforms, anchorChildren,
                 fadeAnimationFrameId, sessionVars, reticleVars,
                 sceneChildren, errorCount>>

\* ------------------------------------------------------ capability query
\* isWebXRSupported(): false without navigator.xr; otherwise the answer of
\* isSessionSupported or-ed with "requestSession is a function", and the
\* latter alone when the query throws.
IsWebXRSupported(nav, query) ==
  IF nav = "absent" THEN FALSE
  ELSE IF query = "throws" THEN nav = "full"
  ELSE (query = "true") \/ (nav = "full")

RunningMode == IF mode = "marker" THEN "marker" ELSE "webxr"

\* init(): overlays switched, capability queried, mode toggle initialised.
CheckSupport ==
  /\ UNCHANGED <<selectHistory, lastDraw, loadedVars, extVars>>
  /\ pc = "loaded"
  /\ \E query \in {"true", "false", "throws"} :
       webxrOK' = IsWebXRSupported(navXR, query)
  /\ pc' = "checked"
  /\ lastEvent' = Event("support", "")
  /\ UNCHANGED <<mode, navXR, loadingText, arStatus, clickListener, tapCount,
                 startAttempts, requestSessionCalls, markerStarted, treeVars,
                 sessionVars, reticleVars, sceneChildren, errorCount>>

\* init(): the step taken after the capability query.  Only the running
\* mode decides it; webxrOK is logged and otherwise unused.
\* The same step with a fallback to marker mode when support is denied.
AfterSupportCheck_FallsBack(running, ok) ==
  IF running = "marker" \/ ~ok THEN "marker" ELSE "gate"

AfterSupportCheck(running, ok) ==
  IF running = "marker" THEN "marker" ELSE "gate"

\* waitForUserTapAndStartAR(): the instructions are typed out, the button
\* is shown and one click listener is registered with { once: true }.
EnterGate ==
  /\ UNCHANGED <<selectHistory, lastDraw, loadedVars, extVars>>
  /\ pc = "checked"
  /\ AfterSupportCheck(RunningMode, webxrOK) = "gate"
  /\ pc' = "gate"
  /\ arStatus' = Status("Enjoy the tree.", "")
  /\ clickListener' = TRUE
  /\ lastEvent' = Event("gate", "")
  /\ UNCHANGED <<mode, navXR, webxrOK, loadingText, tapCount, startAttempts,
                 requestSessionCalls, markerStarted, treeVars, sessionVars,
                 reticleVars, sceneChildren, errorCount>>

\* startMarkerAnchoredMode(), up to the await of startMarkerTracking; init
\* calls it in marker mode and from the catch around the gate.
StartMarkerAnchoredMode ==
  /\ UNCHANGED <<selectHistory, lastDraw, loadedVars, extVars>>
  /\ pc \in {"checked", "fallback"}
  /\ pc = "checked" => AfterSupportCheck(RunningMode, webxrOK) = "marker"
  /\ pc' = "markerStarting"
  /\ markerStarted' = TRUE
  /\ arStatus' = Status("Point camera at the marker", "")
  /\ lastEvent' = Event("marker", "start")
  /\ UNCHANGED <<mode, navXR, webxrOK, loadingText, clickListener, tapCount,
                 startAttempts, requestSessionCalls, treeVars, sessionVars,
                 reticleVars, sceneChildren, errorCount>>

\* startMarkerAnchoredMode(), after the await: a failure is shown and the
\* function returns; otherwise the tree is parented to the anchor group and
\* uniforms.uOpacity.value = 1.0 is written, which throws out of the
\* function (an unhandled rejection of init) when the key is not declared.
MarkerTrackingSettles ==
  /\ UNCHANGED <<selectHistory, lastDraw, loadedVars, extVars>>
  /\ pc = "markerStarting"
  /\ \E ok \in BOOLEAN :
       IF ~ok
       THEN /\ arStatus' = Status("Marker mode failed: ", "tracking")
            /\ pc' = "done"
            /\ UNCHANGED <<anchorChildren, uniforms, errorCount>>
       ELSE /\ anchorChildren' = anchorChildren \cup {"point-cloud"}
            /\ IF HasUniform(uniforms, "uOpacity")
               THEN /\ uniforms' = SetUniform(uniforms, "uOpacity", 100)
                    /\ pc' = "markerLoop"
                    /\ UNCHANGED errorCount
               ELSE /\ errorCount' = errorCount + 1
                    /\ pc' = "done"
                    /\ UNCHANGED uniforms
            /\ UNCHANGED arStatus
  /\ lastEvent' = Event("marker", pc')
  /\ UNCHANGED <<mode, navXR, webxrOK, loadingText, clickListener, tapCount,
                 startAttempts, requestSessionCalls, markerStarted, treeData,
                 treePlaced, meshPos, meshScale, meshQuat, loadTransforms,
                 placeTransforms, fadeAnimationFrameId, sessionVars,
                 reticleVars, sceneChildren>>

\* -------------------------------------------------- the Enter-AR button
\* startWebXRSession() up to its first await: navigator.xr.requestSession
\* is called when it is a function; otherwise the call itself throws a
\* TypeError inside the try, which is logged and rethrown.
CanRequestSession(nav) == nav = "full"

\* The click handler's catch: the status line shows the failure.
FailedStatus(message) == Status("WebXR failed: ", message)

\* How the gate's promise settles: the click handler catches whatever
\* startWorldAR() throws and its finally calls resolve(); nothing rejects.
GateSettles(threw) == "resolved"

\* init() after the gate: its catch would start marker mode on a rejection;
\* on a resolution init() returns.
InitAfterGate(outcome) == IF outcome = "rejected" THEN "fallback" ELSE "done"

\* addEventListener('click', ..., { once: true }): whether the listener is
\* still registered after it has run.
\* The listener registered without { once: true }.
ListenerAfterClick_NotOnce == TRUE

ListenerAfterClick == FALSE

\* A tap on the Enter-AR button.  The listener was registered once, so only
\* the first tap runs the handler: startWorldAR() resets treePlaced, takes
\* the tree out of the scene if it is there, and calls startWebXRSession().
Tap ==
  /\ UNCHANGED <<selectHistory, lastDraw, loadedVars, extVars>>
  /\ pc \in {"gate", "done"}
  /\ RunningMode = "webxr"
  /\ tapCount < MaxTaps
  /\ tapCount' = tapCount + 1
  /\ IF ~clickListener
     THEN /\ lastEvent' = Event("tap", "ignored")
          /\ UNCHANGED <<pc, arStatus, clickListener, startAttempts,
                         requestSessionCalls, treePlaced, sceneChildren,
                         setupStep>>
     ELSE /\ clickListener' = ListenerAfterClick
          /\ startAttempts' = startAttempts + 1
          /\ treePlaced' = FALSE
          /\ sceneChildren' = sceneChildren \ {"point-cloud"}
          /\ IF CanRequestSession(navXR)
             THEN /\ requestSessionCalls' = requestSessionCalls + 1
                  /\ setupStep' = "requestSession"
                  /\ arStatus' = Status("Starting AR", "")
                  /\ lastEvent' = Event("tap", "requested")
                  /\ UNCHANGED pc
             ELSE /\ setupStep' = "threw"
                  /\ arStatus' = FailedStatus("TypeError")
                  /\ pc' = InitAfterGate(GateSettles(TRUE))
                  /\ lastEvent' = Event("tap", "threw")
                  /\ UNCHANGED requestSessionCalls
  /\ UNCHANGED <<mode, navXR, webxrOK, loadingText, markerStarted, treeData,
                 meshPos, meshScale, meshQuat, loadTransforms, placeTransforms,
                 anchorChildren, uniforms, fadeAnimationFrameId, xrSession,
                 sessionAlive, hitTestSource, hitTestCancelled, referenceSpace,
                 selectListener, endListener, frameLoop, onSessionEndCalls,
                 reticleVars, errorCount>>

\* ------------------------------------------- startWebXRSession(): awaits
\* What a rejected await of the setup leaves: the exception propagates out
\* of startWebXRSession and startWorldAR into the click handler's catch.
SetupThrows(message) ==
  /\ setupStep' = "threw"
  /\ arStatus' = FailedStatus(message)
  /\ pc' = InitAfterGate(GateSettles(TRUE))
  /\ lastEvent' = Event("setup", "threw")

setupRest == <<mode, navXR, webxrOK, loadingText, clickListener, tapCount,
               startAttempts, requestSessionCalls, markerStarted, treeVars,
               hitTestCancelled, onSessionEndCalls, errorCount>>

\* await navigator.xr.requestSession('immersive-ar', sessionInit)
RequestSessionSettles ==
  /\ UNCHANGED <<selectHistory, lastDraw, loadedVars, extVars>>
  /\ setupStep = "requestSession"
  /\ \E ok \in BOOLEAN :
       IF ok
       THEN /\ xrSession' = "session"
            /\ sessionAlive' = TRUE
            /\ arStatus' = Status("Scanning floor", "")
            /\ setupStep' = "setSession"
            /\ lastEvent' = Event("setup", "session")
            /\ UNCHANGED pc
       ELSE /\ SetupThrows("NotSupportedError")
            /\ UNCHANGED <<xrSession, sessionAlive>>
  /\ UNCHANGED <<setupRest, hitTestSource, referenceSpace, selectListener,
                 endListener, frameLoop, reticleVars, sceneChildren>>

\* await renderer.xr.setSession(xrSession)
SetSessionSettles ==
  /\ UNCHANGED <<selectHistory, lastDraw, loadedVars, extVars>>
  /\ setupStep = "setSession"
  /\ \E ok \in BOOLEAN :
       IF ok /\ sessionAlive
       THEN /\ setupStep' = "viewerSpace"
            /\ lastEvent' = Event("setup", "bound")
            /\ UNCHANGED <<pc, arStatus>>
       ELSE SetupThrows("InvalidStateError")
  /\ UNCHANGED <<setupRest, xrSession, sessionAlive, hitTestSource,
                 referenceSpace, selectListener, endListener, frameLoop,
                 reticleVars, sceneChildren>>

\* viewerSpace = await xrSession.requestReferenceSpace('viewer')
ViewerSpaceSettles ==
  /\ UNCHANGED <<selectHistory, lastDraw, loadedVars, extVars>>
  /\ setupStep = "viewerSpace"
  /\ \E ok \in BOOLEAN :
       IF ok /\ sessionAlive
       THEN /\ setupStep' = "referenceSpace"
            /\ lastEvent' = Event("setup", "viewer")
            /\ UNCHANGED <<pc, arStatus>>
       ELSE SetupThrows("NotSupportedError")
  /\ UNCHANGED <<setupRest, xrSession, sessionAlive, hitTestSource,
                 referenceSpace, selectListener, endListener, frameLoop,
                 reticleVars, sceneChildren>>

\* referenceSpace = await getReferenceSpace(xrSession): the first of
\* 'local-floor', 'local', 'viewer' the session grants, or an Error.
ReferenceSpaceSettles ==
  /\ UNCHANGED <<selectHistory, lastDraw, loadedVars, extVars>>
  /\ setupStep = "referenceSpace"
  /\ \E type \in {"local-floor", "local", "viewer", "none"} :
       IF type # "none" /\ sessionAlive
       THEN /\ referenceSpace' = type
            /\ setupStep' = "hitTestSource"
            /\ lastEvent' = Event("setup", "space")
            /\ UNCHANGED <<pc, arStatus>>
       ELSE /\ SetupThrows("No supported reference space found")
            /\ UNCHANGED referenceSpace
  /\ UNCHANGED <<setupRest, xrSession, sessionAlive, hitTestSource,
                 selectListener, endListener, frameLoop, reticleVars,
                 sceneChildren>>

\* hitTestSource = await xrSession.requestHitTestSource(...), whose failure
\* is only logged; then, synchronously: the reticle is created hidden and
\* added to the scene, the 'select' and 'end' listeners are registered, the
\* frame callback is installed; startWorldAR() shows the placing hint.
HitTestSourceSettles ==
  /\ UNCHANGED <<selectHistory, lastDraw, loadedVars, extVars>>
  /\ setupStep = "hitTestSource"
  /\ \E ok \in BOOLEAN :
       hitTestSource' = IF ok /\ sessionAlive THEN "source" ELSE hitTestSource
  /\ reticle' = TRUE
  /\ reticleVisible' = FALSE
  /\ reticlePos' = Origin
  /\ reticleDisposed' = FALSE
  /\ currentHitPose' = NullPose
  /\ sceneChildren' = sceneChildren \cup {"placement-reticle"}
  /\ placed' = FALSE
  /\ selectListener' = TRUE
  /\ endListener' = TRUE
  /\ frameLoop' = TRUE
  /\ setupStep' = "live"
  /\ arStatus' = Status("Align the white square with the marker on the floor, then tap to place the tree", "")
  /\ pc' = InitAfterGate(GateSettles(FALSE))
  /\ lastEvent' = Event("setup", "live")
  /\ UNCHANGED <<setupRest, xrSession, sessionAlive, referenceSpace>>

\* ------------------------------------------------------------ placeTree
\* The fade's ease-in-out cubic, on t in hundredths (0..100), in hundredths:
\* t < 0.5 ? 4 t^3 : 1 - (-2 t + 2)^3 / 2.
EaseInOutCubic(t) ==
  IF t < 50
  THEN (4 * t * t * t) \div 10000
  ELSE 100 - ((200 - 2 * t) * (200 - 2 * t) * (200 - 2 * t)) \div 20000

\* t = Math.min(elapsed / fadeDuration, 1.0), elapsed in milliseconds.
FadeProgress(elapsed) ==
  IF elapsed >= 2000 THEN 100 ELSE (elapsed * 100) \div 2000

\* tick(): writes the eased opacity; below t = 1 it requests the next
\* animation frame, at t = 1 it writes 1.0 and clears the frame id.
FadeTick(reg, elapsed) ==
  LET t == FadeProgress(elapsed) IN
  IF t < 100
  THEN [reg |-> SetUniform(reg, "uOpacity", EaseInOutCubic(t)), frameId |-> 1]
  ELSE [reg |-> SetUniform(reg, "uOpacity", 100), frameId |-> 0]

\* startOpacityFadeIn(): a pending fade frame is cancelled, then
\* uniforms.uOpacity.value = 0.0 is written, which throws when the registry
\* declares no uOpacity; otherwise the first tick() runs at once (t = 0,
\* opacity 0) and requests the next animation frame.
StartOpacityFadeIn(reg, frameId) ==
  IF ~HasUniform(reg, "uOpacity")
  THEN [threw |-> TRUE, reg |-> reg, frameId |-> frameId]
  ELSE LET first == FadeTick(SetUniform(reg, "uOpacity", 0), 0) IN
       [threw |-> FALSE, reg |-> first.reg, frameId |-> first.frameId]

\* stopHitTest(): cancels and clears the hit-test source if there is one.
StopHitTest(source, cancelled) ==
  IF source # "null"
  THEN [source |-> "null", cancelled |-> TRUE]
  ELSE [source |-> source, cancelled |-> cancelled]

\* A guard that always returns early.
PlaceTreeSkipped_Always == TRUE

\* placeTree's guard.
PlaceTreeSkipped == treePlaced \/ treeData = "null"

\* The same write with the floor offset forgotten.
PlacedPosition_NoFloorOffset(pos, hitPose) ==
  <<pos[1] + hitPose[1], pos[2] + hitPose[2], pos[3] + hitPose[3]>>

\* The position placeTree writes: the hit position is added to the offset
\* the loader left on the mesh, lowered by floorOffset.
PlacedPosition(pos, hitPose) ==
  <<pos[1] + hitPose[1], pos[2] + hitPose[2] - FloorOffset, pos[3] + hitPose[3]>>

\* placeTree(hitPose), called with the scene as the select handler left it.
\* An exception (hitPose.position of null, or startOpacityFadeIn throwing)
\* leaves everything written before it in place and skips the rest.
PlaceTree(hitPose, scene) ==
  LET fade == StartOpacityFadeIn(uniforms, fadeAnimationFrameId)
      stop == StopHitTest(hitTestSource, hitTestCancelled) IN
  IF PlaceTreeSkipped
  THEN /\ sceneChildren' = scene
       /\ UNCHANGED <<treePlaced, meshPos, placeTransforms, uniforms,
                      fadeAnimationFrameId, hitTestSource, hitTestCancelled,
                      arStatus, errorCount>>
  ELSE /\ treePlaced' = TRUE
       /\ IF hitPose = NullPose
          THEN /\ errorCount' = errorCount + 1
               /\ sceneChildren' = scene
               /\ UNCHANGED <<meshPos, placeTransforms, uniforms,
                              fadeAnimationFrameId, hitTestSource,
                              hitTestCancelled, arStatus>>
          ELSE /\ meshPos' = PlacedPosition(meshPos, hitPose)
               /\ placeTransforms' = placeTransforms + 1
               /\ sceneChildren' = scene \cup {"point-cloud"}
               /\ IF fade.threw
                  THEN /\ errorCount' = errorCount + 1
                       /\ UNCHANGED <<uniforms, fadeAnimationFrameId,
                                      hitTestSource, hitTestCancelled, arStatus>>
                  ELSE /\ uniforms' = fade.reg
                       /\ fadeAnimationFrameId' = fade.frameId
                       /\ hitTestSource' = stop.source
                       /\ hitTestCancelled' = stop.cancelled
                       /\ arStatus' = Status("", "")
                       /\ UNCHANGED errorCount

\* ------------------------------------------------------ 'select' handler
\* The guard without its placed flag.
SelectIgnored_NoPlacedCheck == currentHitPose = NullPose

\* The guard without its null check of the pose.
SelectIgnored_NoPoseCheck == placed

\* if (placed || !_currentHitPose) return;

SelectIgnored == placed \/ currentHitPose = NullPose

\* The XR 'select' listener.  Listeners are never removed, so an event that
\* is delivered late runs the same code.
OnSelect ==
  /\ selectListener
  /\ earlySelect' = (earlySelect \/ (~placed /\ currentHitPose = NullPose))
  /\ lostSelect' = (lostSelect \/ (~placed /\ currentHitPose = NullPose
                                     /\ reticlePos \in HitPoses))
  /\ UNCHANGED <<lastDraw, loadedVars, extVars>>
  /\ IF SelectIgnored
     THEN /\ lastEvent' = Event("select", "ignored")
          /\ UNCHANGED <<reticleVars, sceneChildren, treePlaced, meshPos,
                         placeTransforms, uniforms, fadeAnimationFrameId,
                         hitTestSource, hitTestCancelled, arStatus, errorCount>>
     ELSE /\ placed' = TRUE
          /\ IF ~reticle
             THEN \* _reticle.geometry of null throws before onPlace
                  /\ errorCount' = errorCount + 1
                  /\ lastEvent' = Event("select", "threw")
                  /\ UNCHANGED <<reticle, reticleVisible, reticlePos,
                                 reticleDisposed, currentHitPose, sceneChildren,
                                 treePlaced, meshPos, placeTransforms, uniforms,
                                 fadeAnimationFrameId, hitTestSource,
                                 hitTestCancelled, arStatus>>
             ELSE /\ reticle' = FALSE
                  /\ reticleDisposed' = TRUE
                  /\ PlaceTree(currentHitPose, sceneChildren \ {"placement-reticle"})
                  /\ lastEvent' = Event("select", "placed")
                  /\ UNCHANGED <<reticleVisible, reticlePos, currentHitPose>>
  /\ UNCHANGED <<pc, mode, navXR, webxrOK, loadingText, clickListener,
                 tapCount, startAttempts, requestSessionCalls, markerStarted,
                 treeData, meshScale, meshQuat, loadTransforms, anchorChildren,
                 setupStep, xrSession, sessionAlive, referenceSpace,
                 selectListener, endListener, frameLoop, onSessionEndCalls>>

\* ------------------------------------------------------- frame callback
\* What the frame can carry: no XRFrame at all, or the hit-test outcome:
\* no result, a result whose pose does not resolve, or a resolved pose.
FrameInputs ==
  { [kind |-> k, pose |-> NullPose] : k \in {"noframe", "miss", "nopose"} }
    \cup { [kind |-> "hit", pose |-> p] : p \in HitPoses }

\* The frame's condition without its check of the hit-test source.
FrameQueries_NoSourceCheck == reticle

\* if (hitTestSource && _reticle): the frame queries the hit-test source.
FrameQueries == hitTestSource # "null" /\ reticle

\* The same branch with the pose left in place on a miss.
HitTestUpdate_MissKeepsPose(input, visible, pos, pose) ==
  IF input.kind = "hit"
  THEN [visible |-> TRUE, pos |-> input.pose, pose |-> input.pose]
  ELSE IF input.kind = "miss"
  THEN [visible |-> FALSE, pos |-> pos, pose |-> pose]
  ELSE [visible |-> visible, pos |-> pos, pose |-> pose]

\* The same branch with an unresolved pose treated as no result.
HitTestUpdate_NoPoseClears(input, visible, pos, pose) ==
  IF input.kind = "hit"
  THEN [visible |-> TRUE, pos |-> input.pose, pose |-> input.pose]
  ELSE [visible |-> FALSE, pos |-> pos, pose |-> NullPose]

\* The same branch with the reticle left visible on a miss.
HitTestUpdate_MissKeepsVisible(input, visible, pos, pose) ==
  IF input.kind = "hit"
  THEN [visible |-> TRUE, pos |-> input.pose, pose |-> input.pose]
  ELSE IF input.kind = "miss"
  THEN [visible |-> visible, pos |-> pos, pose |-> NullPose]
  ELSE [visible |-> visible, pos |-> pos, pose |-> pose]

\* The same branch with the reticle's visibility left alone on a hit.
HitTestUpdate_HitKeepsHidden(input, visible, pos, pose) ==
  IF input.kind = "hit"
  THEN [visible |-> visible, pos |-> input.pose, pose |-> input.pose]
  ELSE IF input.kind = "miss"
  THEN [visible |-> FALSE, pos |-> pos, pose |-> NullPose]
  ELSE [visible |-> visible, pos |-> pos, pose |-> pose]

\* The hit-test branch of _onFrame, given the query's outcome: a resolved
\* pose shows the reticle there and records the pose; no result hides the
\* reticle and clears the pose; an unresolved pose changes nothing.
HitTestUpdate(input, visible, pos, pose) ==
  IF input.kind = "hit"
  THEN [visible |-> TRUE, pos |-> input.pose, pose |-> input.pose]
  ELSE IF input.kind = "miss"
  THEN [visible |-> FALSE, pos |-> pos, pose |-> NullPose]
  ELSE [visible |-> visible, pos |-> pos, pose |-> pose]

\* updateUniforms(): the write of uniforms.time.value; it throws when the
\* registry declares no such entry.
UpdateUniforms(reg) ==
  IF HasUniform(reg, "time")
  THEN [threw |-> FALSE, reg |-> SetUniform(reg, "time", 1)]
  ELSE [threw |-> TRUE, reg |-> reg]

\* The calls _onFrame makes, in order: the hit-test update, then the draw.
\* updateUniforms and updateAnimations are not among them.
OnFrameSteps == <<"hitTest", "render">>

\* Whether a callback making these calls refreshes the registry's time
\* before it draws.
FreshBeforeRender(steps, reg) ==
  \E i \in 1..Len(steps) :
     /\ steps[i] = "render"
     /\ \E j \in 1..(i - 1) : steps[j] = "updateUniforms"
     /\ ~UpdateUniforms(reg).threw

\* The placed flag after a frame callback: _onFrame never assigns it.
\* A callback that places on the first resolved hit, without a select.
PlacedAfterFrame_AutoPlace(flag, input) == flag \/ input.kind = "hit"

PlacedAfterFrame(flag, input) == flag

\* _onFrame(timestamp, frame); every branch ends in renderer.render().
OnFrame ==
  /\ UNCHANGED <<selectHistory, loadedVars, extVars>>
  /\ frameLoop
  /\ lastDraw' = IF FreshBeforeRender(OnFrameSteps, uniforms)
                 THEN "fresh" ELSE "stale"
  /\ \E input \in FrameInputs :
       /\ placed' = PlacedAfterFrame(placed, input)
       /\ IF input.kind = "noframe"
          THEN /\ lastEvent' = Event("frame", "noframe")
               /\ UNCHANGED <<reticleVisible, reticlePos, currentHitPose>>
          ELSE IF ~FrameQueries
          THEN /\ lastEvent' = Event("frame", "skipped")
               /\ UNCHANGED <<reticleVisible, reticlePos, currentHitPose>>
          ELSE LET r == HitTestUpdate(input, reticleVisible, reticlePos,
                                      currentHitPose) IN
               /\ reticleVisible' = r.visible
               /\ reticlePos' = r.pos
               /\ currentHitPose' = r.pose
               /\ lastEvent' = Event("frame", input.kind)
  /\ UNCHANGED <<appVars, treeVars, sessionVars, reticle, reticleDisposed,
                 sceneChildren, errorCount>>

\* ---------------------------------------------------------- session end
\* The clearing with the candidate pose forgotten.
ReferencesAfterEnd_KeepsPose ==
  [xrSession |-> "null", hitTestSource |-> "null", referenceSpace |-> "null",
   currentHitPose |-> currentHitPose]

\* The clearing with the hit-test source forgotten.
ReferencesAfterEnd_KeepsSource ==
  [xrSession |-> "null", hitTestSource |-> hitTestSource,
   referenceSpace |-> "null", currentHitPose |-> NullPose]

\* The references the 'end' listener clears.
ReferencesAfterEnd ==
  [xrSession |-> "null", hitTestSource |-> "null", referenceSpace |-> "null",
   currentHitPose |-> NullPose]

\* The XR 'end' listener: the reticle, if any, is removed and disposed; the
\* module's references are cleared; callbacks.onSessionEnd() only logs.
OnSessionEnd ==
  /\ UNCHANGED <<selectHistory, lastDraw, loadedVars, extVars>>
  /\ sessionAlive
  /\ endListener
  /\ sessionAlive' = FALSE
  /\ reticle' = FALSE
  /\ reticleDisposed' = (reticleDisposed \/ reticle)
  /\ sceneChildren' = IF reticle THEN sceneChildren \ {"placement-reticle"}
                      ELSE sceneChildren
  /\ xrSession' = ReferencesAfterEnd.xrSession
  /\ hitTestSource' = ReferencesAfterEnd.hitTestSource
  /\ referenceSpace' = ReferencesAfterEnd.referenceSpace
  /\ currentHitPose' = ReferencesAfterEnd.currentHitPose
  /\ onSessionEndCalls' = onSessionEndCalls + 1
  /\ lastEvent' = Event("end", "handled")
  /\ UNCHANGED <<appVars, treeVars, setupStep, hitTestCancelled,
                 selectListener, endListener, frameLoop, reticleVisible,
                 reticlePos, placed, errorCount>>

\* The session ends (the user leaves, the platform revokes the camera)
\* while no 'end' listener is registered: during the awaited setup, or
\* after the setup threw.  No code of the page runs.
SessionEndsUnheard ==
  /\ UNCHANGED <<selectHistory, lastDraw, loadedVars, extVars>>
  /\ sessionAlive
  /\ ~endListener
  /\ sessionAlive' = FALSE
  /\ lastEvent' = Event("end", "unheard")
  /\ UNCHANGED <<appVars, treeVars, setupStep, xrSession, hitTestSource,
                 hitTestCancelled, referenceSpace, selectListener, endListener,
                 frameLoop, onSessionEndCalls, reticleVars, sceneChildren,
                 errorCount>>

\* ------------------------------------------- loader: colour attribute
\* Colour values are in units of 1/255: 1.0 is 255, the byte 200 is 51000.
\* The buffers are those of a PLY that has a colour attribute: a run of one
\* value followed by a run of another.
Run(a, k, b, m) == [i \in 1..(k + m) |-> IF i <= k THEN a ELSE b]

PrefixLengths == {0, 1, ColourSampleWindow - 1, ColourSampleWindow}

ByteValues == {0, ByteScale, 200 * ByteScale, 255 * ByteScale}

UnitValues == {0, 128, ByteScale}

ByteBuffers ==
  { Run(a, k, b, m) : a \in ByteValues, b \in ByteValues,
                      k \in PrefixLengths, m \in 0..MaxTail }

UnitBuffers ==
  { Run(a, k, b, m) : a \in UnitValues, b \in UnitValues,
                      k \in PrefixLengths, m \in 0..MaxTail }

\* The sampling loop: some value among the first min(length, 30) is > 1.0.
NeedsNormalise(buf) ==
  \E i \in 1..Len(buf) : i <= ColourSampleWindow /\ buf[i] > ByteScale

\* The normalisation: if the sample found a value above 1.0 every value is
\* divided by 255 in place, otherwise the buffer is left as it is.
NormaliseColours(buf) ==
  IF NeedsNormalise(buf)
  THEN [i \in 1..Len(buf) |-> buf[i] \div ByteScale]
  ELSE buf

\* The normalisation runs over the colour attribute.
RunColourNormalisation ==
  /\ colourPasses < MaxPasses
  /\ colorArr' = NormaliseColours(colorArr)
  /\ colourPasses' = colourPasses + 1
  /\ UNCHANGED <<appVars, treeVars, sessionVars, reticleVars, sceneChildren,
                 errorCount, lastEvent, selectHistory, lastDraw,
                 fragmentShader, colorInput, roles, prevRoles, bufferVars,
                 extVars>>

\* --------------------------------------------- loader: particleRole
\* A 32-bit word is the record of its 16-bit halves.
\* let seed = 0xdeadbeef, local to each call of loadPointCloud.
SeedWord == [hi |-> 57005, lo |-> 48879]

RECURSIVE Xor16(_, _, _)
\* Bitwise exclusive or of two numbers of the given number of bits.
Xor16(a, b, bits) ==
  IF bits = 0 THEN 0
  ELSE (((a % 2) + (b % 2)) % 2) + 2 * Xor16(a \div 2, b \div 2, bits - 1)

Xor(a, b) == [hi |-> Xor16(a.hi, b.hi, 16), lo |-> Xor16(a.lo, b.lo, 16)]

\* seed << k for k < 16, kept to 32 bits.
ShiftLeft(w, k) ==
  [hi |-> (w.lo \div (2 ^ (16 - k))) + (w.hi % (2 ^ (16 - k))) * (2 ^ k),
   lo |-> (w.lo % (2 ^ (16 - k))) * (2 ^ k)]

\* seed >> k for k >= 16: the word is read as a signed 32-bit integer, so
\* the sign bit fills from the top.
ShiftRightSigned(w, k) ==
  LET sign == w.hi \div 32768 IN
  [hi |-> sign * 65535,
   lo |-> (w.hi \div (2 ^ (k - 16))) + sign * (65536 - 2 ^ (32 - k))]

\* One round of the xorshift: 13 left, 17 right, 5 left, each >>> 0.
XorShift(w) ==
  LET a == Xor(w, ShiftLeft(w, 13))
      b == Xor(a, ShiftRightSigned(a, 17))
  IN  Xor(b, ShiftLeft(b, 5))

\* (seed / 0xffffffff) < 0.30 ? 1.0 : 0.0, that is seed <= 1288490188 =
\* 19660 * 65536 + 52428, compared by halves.
RoleOf(w) ==
  IF w.hi < 19660 \/ (w.hi = 19660 /\ w.lo <= 52428) THEN 1 ELSE 0

\* The seed an assignment starts from, given the seed the assignment
\* before it ended with.
\* A seed kept at module level would carry over from run to run.
SeedAtStart_Carried(last) == last

SeedAtStart(last) == SeedWord

RECURSIVE RolesFrom(_, _)
\* The loop over the vertices: each index advances the seed once and takes
\* its role from the advanced seed.
RolesFrom(seed, count) ==
  IF count = 0 THEN <<>>
  ELSE LET next == XorShift(seed) IN <<RoleOf(next)>> \o RolesFrom(next, count - 1)

RECURSIVE SeedAfter(_, _)
SeedAfter(seed, count) ==
  IF count = 0 THEN seed ELSE SeedAfter(XorShift(seed), count - 1)

\* The seed the latest assignment ended with.
LastSeed == SeedAfter(SeedWord, Len(roles))

\* The role assignment runs for a geometry of some vertex count.
AssignRoles ==
  /\ \E vertexCount \in 1..MaxVertices :
       roles' = RolesFrom(SeedAtStart(LastSeed), vertexCount)
  /\ prevRoles' = roles
  /\ UNCHANGED <<appVars, treeVars, sessionVars, reticleVars, sceneChildren,
                 errorCount, lastEvent, selectHistory, lastDraw,
                 fragmentShader, colorInput, colorArr, colourPasses,
                 bufferVars, extVars>>

\* ---------------------------------------------- marker seek (AR.js phase)
\* What everything outside the seek keeps during it.
seekRest == <<mode, navXR, webxrOK, loadingText, tapCount, startAttempts,
              requestSessionCalls, markerStarted, treeVars, sessionVars,
              reticleVars, sceneChildren, errorCount, selectHistory,
              lastDraw, loadedVars, floatVars>>

\* init() of the variant with the marker phase: in WebXR mode detectMarker()
\* shows the prompt and awaits waitForMarkerDetection(), which first awaits
\* loadARjs().
DetectMarker ==
  /\ pc = "checked"
  /\ RunningMode = "webxr"
  /\ pc' = "detect"
  /\ seekStep' = "loadARjs"
  /\ arStatus' = Status("Point camera at the floor marker", "")
  /\ lastEvent' = Event("seek", "start")
  /\ UNCHANGED <<seekRest, clickListener, arToolkitSource, arToolkitContext,
                 animFrameId, tickPending, resizeHandler, resizeListening,
                 cameraTracks, canvasHidden, resolveCount, pollCount>>

\* await loadARjs(): script.onerror rejects, and waitForMarkerDetection with
\* it; script.onload goes on to hide the canvas and create the source.
LoadARjsSettles ==
  /\ seekStep = "loadARjs"
  /\ \E ok \in BOOLEAN :
       IF ok
       THEN /\ canvasHidden' = TRUE
            /\ arToolkitSource' = "source"
            /\ seekStep' = "sourceInit"
            /\ lastEvent' = Event("seek", "script")
       ELSE /\ seekStep' = "failed"
            /\ lastEvent' = Event("seek", "failed")
            /\ UNCHANGED <<canvasHidden, arToolkitSource>>
  /\ UNCHANGED <<seekRest, pc, arStatus, clickListener, arToolkitContext,
                 animFrameId, tickPending, resizeHandler, resizeListening,
                 cameraTracks, resolveCount, pollCount>>

\* arToolkitSource.init(onReady): the camera stream runs; the resize handler
\* is stored and registered; the context is created.
SourceReady ==
  /\ seekStep = "sourceInit"
  /\ cameraTracks' = "live"
  /\ resizeHandler' = TRUE
  /\ resizeListening' = TRUE
  /\ arToolkitContext' = "context"
  /\ seekStep' = "contextInit"
  /\ lastEvent' = Event("seek", "camera")
  /\ UNCHANGED <<seekRest, pc, arStatus, clickListener, arToolkitSource,
                 animFrameId, tickPending, canvasHidden, resolveCount,
                 pollCount>>

\* arToolkitContext.init(onCompleted), the probe group and its marker
\* controls, then the first requestAnimationFrame(tick).
ContextReady ==
  /\ seekStep = "contextInit"
  /\ seekStep' = "polling"
  /\ animFrameId' = animFrameId + 1
  /\ tickPending' = TRUE
  /\ lastEvent' = Event("seek", "polling")
  /\ UNCHANGED <<seekRest, pc, arStatus, clickListener, arToolkitSource,
                 arToolkitContext, resizeHandler, resizeListening,
                 cameraTracks, canvasHidden, resolveCount, pollCount>>

\* A cleanup that leaves the resize listener on the window.
CleanupARjs_KeepsListener(frameId, pending, handler, listening, source, tracks) ==
  [animFrameId |-> 0,
   tickPending |-> IF frameId # 0 THEN FALSE ELSE pending,
   resizeHandler |-> FALSE,
   resizeListening |-> listening,
   cameraTracks |-> IF source # "null" /\ tracks = "live" THEN "stopped" ELSE tracks,
   arToolkitSource |-> "null",
   arToolkitContext |-> "null"]

\* cleanupARjs(): a pending animation frame is cancelled and the id cleared;
\* the resize handler, if stored, is removed from the window; the tracks of
\* the source's stream are stopped; both references are set to null.
CleanupARjs(frameId, pending, handler, listening, source, tracks) ==
  [animFrameId |-> 0,
   tickPending |-> IF frameId # 0 THEN FALSE ELSE pending,
   resizeHandler |-> FALSE,
   resizeListening |-> IF handler THEN FALSE ELSE listening,
   cameraTracks |-> IF source # "null" /\ tracks = "live" THEN "stopped" ELSE tracks,
   arToolkitSource |-> "null",
   arToolkitContext |-> "null"]

\* tick(): without a ready source it only requests the next frame; otherwise
\* it feeds the video frame to the context and, if the probe is visible,
\* restores the canvas, cleans up and resolves; if not, it requests the next
\* frame.
PollTick ==
  /\ seekStep = "polling"
  /\ tickPending
  /\ \E ready \in BOOLEAN, visible \in BOOLEAN :
       IF arToolkitSource = "null" \/ ~ready \/ ~visible
       THEN /\ pollCount < MaxPolls
            /\ pollCount' = pollCount + 1
            /\ animFrameId' = animFrameId + 1
            /\ tickPending' = TRUE
            /\ lastEvent' = Event("poll", IF arToolkitSource = "null" \/ ~ready
                                          THEN "notReady" ELSE "hidden")
            /\ UNCHANGED <<seekStep, arToolkitSource, arToolkitContext,
                           resizeHandler, resizeListening, cameraTracks,
                           canvasHidden, resolveCount>>
       ELSE LET c == CleanupARjs(animFrameId, FALSE, resizeHandler,
                                 resizeListening, arToolkitSource,
                                 cameraTracks) IN
            /\ canvasHidden' = FALSE
            /\ animFrameId' = c.animFrameId
            /\ tickPending' = c.tickPending
            /\ resizeHandler' = c.resizeHandler
            /\ resizeListening' = c.resizeListening
            /\ cameraTracks' = c.cameraTracks
            /\ arToolkitSource' = c.arToolkitSource
            /\ arToolkitContext' = c.arToolkitContext
            /\ resolveCount' = resolveCount + 1
            /\ seekStep' = "resolved"
            /\ lastEvent' = Event("poll", "visible")
            /\ UNCHANGED pollCount
  /\ UNCHANGED <<seekRest, pc, arStatus, clickListener>>

\* init() after detectMarker(): resolved, or rejected into the catch that
\* only warns; then waitForUserTapAndStartAR() shows its status and the
\* button and registers the click listener.
EnterGateAfterSeek ==
  /\ pc = "detect"
  /\ seekStep \in {"resolved", "failed"}
  /\ pc' = "gate"
  /\ arStatus' = Status("Marker found!", "")
  /\ clickListener' = TRUE
  /\ lastEvent' = Event("gate", "")
  /\ UNCHANGED <<seekRest, seekVars>>

\* ------------------------------------------------- FloatingAnimation
\* What the animation leaves alone.
floatRest == <<appVars, treeVars, sessionVars, reticleVars, sceneChildren,
               errorCount, selectHistory, lastDraw, loadedVars, seekVars>>

\* this.config of each source: delay and fadeInDuration in milliseconds,
\* whether update() returns while elapsed < delay, whether it skips a call
\* that comes less than 16 ms after the last one, and whether elapsed is
\* taken against the absolute start time.
FloatConfig(variant) ==
  IF variant = "absolute"
  THEN [delay |-> 0, fadeInDuration |-> 1000, delayGuard |-> FALSE,
        frameSkip |-> FALSE, absolute |-> TRUE]
  ELSE IF variant = "relative"
  THEN [delay |-> 0, fadeInDuration |-> 1000, delayGuard |-> FALSE,
        frameSkip |-> TRUE, absolute |-> FALSE]
  ELSE [delay |-> 3000, fadeInDuration |-> 2000, delayGuard |-> TRUE,
        frameSkip |-> FALSE, absolute |-> FALSE]

\* this.clock.getElapsedTime() * 1000
ClockElapsed(now, started) == now - started

\* elapsed as update() computes it.  A start time of 0 is falsy.
\* part_003: currentTime - (this.startTime || 0)
\* the others: currentTime - (this.startTime
\*                 ? this.startTime - performance.now() + currentTime : 0)
Elapsed(variant, now, started, start) ==
  LET currentTime == ClockElapsed(now, started) IN
  IF FloatConfig(variant).absolute
  THEN currentTime - start
  ELSE currentTime - (IF start # 0 THEN start - now + currentTime ELSE 0)

\* Math.min(1.0, (elapsed - delay) / fadeInDuration), in hundredths.
FloatFadeProgress(variant, elapsed) ==
  LET c == FloatConfig(variant)
      p == ((elapsed - c.delay) * 100) \div c.fadeInDuration
  IN IF p > 100 THEN 100 ELSE p

\* The time passes: by a step shorter than a frame right after start(),
\* by a long step at any time.
Advance ==
  /\ \E dt \in ClockSteps :
       /\ nowMs + dt <= MaxNow
       /\ dt < 16 => (isActive /\ nowMs = startTime)
       /\ nowMs' = nowMs + dt
  /\ lastEvent' = Event("float", "advance")
  /\ UNCHANGED <<floatRest, floatVariant, isActive, startTime, clockStart,
                 lastFrameTime, fadeFactor, fadeAt>>

\* start()
FloatStart ==
  /\ ~isActive
  /\ startTime' = nowMs
  /\ isActive' = TRUE
  /\ clockStart' = nowMs
  /\ lastEvent' = Event("float", "start")
  /\ UNCHANGED <<floatRest, floatVariant, lastFrameTime, nowMs, fadeFactor,
                 fadeAt>>

\* update() on an initialised instance (originalPositions and boids set).
FloatUpdate ==
  /\ isActive
  /\ LET c == FloatConfig(floatVariant)
         elapsed == Elapsed(floatVariant, nowMs, clockStart, startTime)
     IN
     IF c.frameSkip /\ lastFrameTime > 0 /\ nowMs - lastFrameTime < 16
     THEN /\ lastEvent' = Event("float", "skipped")
          /\ UNCHANGED <<lastFrameTime, fadeFactor, fadeAt>>
     ELSE /\ lastFrameTime' = IF c.frameSkip \/ c.absolute THEN nowMs
                              ELSE lastFrameTime
          /\ IF c.delayGuard /\ elapsed < c.delay
             THEN /\ lastEvent' = Event("float", "waiting")
                  /\ UNCHANGED <<fadeFactor, fadeAt>>
             ELSE /\ fadeFactor' = EaseInOutCubic(FloatFadeProgress(floatVariant, elapsed))
                  /\ fadeAt' = nowMs
                  /\ lastEvent' = Event("float", "update")
  /\ UNCHANGED <<floatRest, floatVariant, isActive, startTime, clockStart,
                 nowMs>>

\* ================================================================ claims
\* Everything a 'select' could touch: the session's placement state, the
\* scene, the mesh transform, the registry, the fade, the hit-test source,
\* the status line and the uncaught-error count.
placementVars ==
  <<placed, reticle, reticleVisible, reticlePos, reticleDisposed,
    currentHitPose, sceneChildren, treePlaced, meshPos, meshScale, meshQuat,
    placeTransforms, uniforms, fadeAnimationFrameId, hitTestSource,
    hitTestCancelled, arStatus, errorCount>>

\* The step just taken was the 'select' handler.
SelectStep == lastEvent'.kind = "select" /\ selectListener

\* C1: of all 'select' events of a session, interleaved with hit and miss
\* frames, only the first one that finds a candidate pose has an effect,
\* and its effect is one placement transform and one insertion of the tree
\* into the scene; every other select, before or after, with or without a
\* pose, leaves placement state, scene, mesh, registry and fade untouched.
C1_IdempotentPlacement ==
  /\ [](placeTransforms <= 1)
  /\ [][SelectStep =>
          IF ~placed /\ currentHitPose # NullPose
          THEN /\ placed' /\ treePlaced'
               /\ placeTransforms' = placeTransforms + 1
               /\ meshPos' = PlacedPosition(meshPos, currentHitPose)
               /\ "point-cloud" \in sceneChildren'
               /\ "point-cloud" \notin sceneChildren
          ELSE UNCHANGED placementVars]_vars

\* A second select, with a valid pose still recorded, was ignored after the
\* tree had been placed.
C1_Witness ==
  /\ lastEvent = Event("select", "ignored")
  /\ placed /\ treePlaced
  /\ currentHitPose # NullPose
  /\ placeTransforms = 1

\* C2 (as claimed): in a WebXR run the mesh transform has been written
\* exactly twice once the tree is placed: once by loadPointCloud (centring
\* offset and uniform scale) and once by placeTree.
C2_TransformWrittenTwice ==
  treePlaced => (loadTransforms = 1 /\ placeTransforms = 1)

\* C3: a 'select' that arrives while the candidate pose is null changes
\* nothing (placed stays false; reticle, mesh, scene, registry, status and
\* the error count are untouched) and the listener stays registered; a
\* later select that finds a pose, after such early selects, still places.
C3_EarlySelectIsNoOp ==
  /\ [][(SelectStep /\ currentHitPose = NullPose) =>
          /\ UNCHANGED placementVars
          /\ selectListener'
          /\ lastEvent'.detail = "ignored"]_vars
  /\ [][(SelectStep /\ earlySelect /\ ~placed /\ currentHitPose # NullPose) =>
          /\ placed' /\ treePlaced'
          /\ placeTransforms' = placeTransforms + 1
          /\ "point-cloud" \in sceneChildren']_vars

\* The tree was placed by a select that followed a select without a pose.
C3_Witness ==
  /\ earlySelect
  /\ lastEvent = Event("select", "placed")
  /\ treePlaced /\ placeTransforms = 1

\* C4: after every frame whose hit-test query returned no result the
\* candidate pose is null and the reticle is hidden, whatever the frame
\* before left; after every frame that resolved a pose the reticle is
\* visible at that pose, so a hit-then-miss sequence toggles it each frame.
C4_NoHitClearsCandidate ==
  /\ (lastEvent = Event("frame", "miss") =>
        (currentHitPose = NullPose /\ reticle /\ ~reticleVisible))
  /\ (lastEvent = Event("frame", "hit") =>
        (currentHitPose \in HitPoses /\ reticle /\ reticleVisible
           /\ reticlePos = currentHitPose))

\* A miss frame that followed a hit: the reticle still carries the position
\* of the hit, and is hidden.
C4_Witness ==
  /\ lastEvent = Event("frame", "miss")
  /\ reticlePos \in HitPoses
  /\ ~reticleVisible /\ currentHitPose = NullPose

\* C5 (as claimed): once placed, the reticle is out of the scene and
\* disposed, the hit-test source has been cancelled and cleared, and no
\* later frame queries the hit-test source.
C5_PlacedStopsHitTest ==
  placed =>
    /\ ~reticle /\ reticleDisposed
    /\ "placement-reticle" \notin sceneChildren
    /\ hitTestSource = "null" /\ hitTestCancelled
    /\ ~FrameQueries

\* C6 (as claimed): whenever the session ends, the end is handled by the
\* cleanup path: the reticle is gone from the scene and disposed, the
\* hit-test source, session, reference space and candidate pose references
\* are null, and onSessionEnd has been invoked, exactly once per session.
C6_EndAlwaysCleansUp ==
  /\ [](onSessionEndCalls <= 1)
  /\ [][(sessionAlive /\ ~sessionAlive') =>
          /\ ~reticle' /\ (reticle => reticleDisposed')
          /\ "placement-reticle" \notin sceneChildren'
          /\ hitTestSource' = "null" /\ xrSession' = "null"
          /\ referenceSpace' = "null" /\ currentHitPose' = NullPose
          /\ onSessionEndCalls' = onSessionEndCalls + 1]_vars

\* The session is live: the setup has run to its end and the session has
\* not ended (scanning, awaiting confirmation, or placed).
SessionLive == setupStep = "live" /\ sessionAlive

\* The 'end' handler has run.
Ended == onSessionEndCalls > 0

\* C7: a live session, placed or not, accepts the end event; once the end
\* handler has run, no frame callback and no select changes the placed
\* flag, the candidate pose, the reticle or the mesh transform, the session
\* stays ended and no further session is requested.
C7_EndedIsTerminal ==
  /\ [](SessionLive => ENABLED OnSessionEnd)
  /\ [][Ended =>
          UNCHANGED <<placed, currentHitPose, reticle, reticleVisible,
                      reticlePos, reticleDisposed, meshPos, meshScale,
                      meshQuat, treePlaced, sceneChildren, xrSession,
                      sessionAlive, hitTestSource, requestSessionCalls,
                      startAttempts, onSessionEndCalls>>]_vars

\* After the end of a session in which nothing was placed, a select has
\* been delivered and ignored.
C7_Witness ==
  /\ Ended /\ ~placed
  /\ lastEvent = Event("select", "ignored")
  /\ tapCount = MaxTaps

\* C8 (as claimed): after the end handler has run, the tracking references
\* are released and every registry entry is back at its declared default.
C8_EndedResetsRegistry ==
  lastEvent = Event("end", "handled") =>
    /\ ~reticle /\ xrSession = "null" /\ hitTestSource = "null"
    /\ referenceSpace = "null" /\ currentHitPose = NullPose
    /\ uniforms = RegistryDefaults

\* C8 (amended): the end handler releases the tracking references (reticle,
\* hit-test source, session, reference space, candidate pose) and leaves
\* every registry entry as it was; nothing resets the registry.
C8_EndedKeepsRegistry ==
  [][(onSessionEndCalls' = onSessionEndCalls + 1) =>
       /\ ~reticle' /\ "placement-reticle" \notin sceneChildren'
       /\ xrSession' = "null" /\ hitTestSource' = "null"
       /\ referenceSpace' = "null" /\ currentHitPose' = NullPose
       /\ uniforms' = uniforms]_vars

\* The end handler has just run on a session that had a hit-test source,
\* and the registry differs from its defaults.
C8_Witness ==
  /\ lastEvent = Event("end", "handled")
  /\ uniforms # RegistryDefaults
  /\ hitTestSource = "null" /\ reticlePos \in HitPoses

\* C9: a failed session start is final: the status line shows the failure
\* with the error's message, init has returned, the click listener is gone;
\* over any number of taps startWebXRSession is called at most once and
\* requestSession is issued at most once; marker mode runs only when the
\* URL asked for it.
C9_StartFailureIsTerminal ==
  /\ startAttempts <= 1 /\ requestSessionCalls <= 1
  /\ (setupStep = "threw" =>
        /\ arStatus.text = "WebXR failed: " /\ arStatus.message # ""
        /\ pc = "done" /\ ~clickListener /\ startAttempts = 1)
  /\ (markerStarted => mode = "marker")

\* The session was requested, its setup threw, and the button was tapped
\* again afterwards.
C9_Witness ==
  /\ setupStep = "threw" /\ requestSessionCalls = 1
  /\ lastEvent = Event("tap", "ignored")

\* C10: in WebXR mode the step after the capability query is the gate,
\* whatever the query answered; the first tap at the gate calls
\* startWebXRSession; the failure status is shown only when that call threw.
C10_OptimisticStart ==
  /\ []((pc = "checked" /\ RunningMode = "webxr") => ENABLED EnterGate)
  /\ [][(pc = "checked" /\ pc' # "checked" /\ RunningMode = "webxr") =>
          (pc' = "gate" /\ clickListener')]_vars
  /\ [][(lastEvent'.kind = "tap" /\ clickListener) =>
          startAttempts' = startAttempts + 1]_vars
  /\ [](arStatus.text = "WebXR failed: " => setupStep = "threw")

\* Support was denied, the gate was entered all the same, the tap called
\* startWebXRSession, and that call threw.
C10_Witness ==
  /\ ~webxrOK /\ RunningMode = "webxr"
  /\ startAttempts = 1 /\ setupStep = "threw"
  /\ arStatus = FailedStatus("TypeError")

\* C11: a load that fails (the PLY or a shader fetch rejects or is not OK,
\* or the loader throws) ends init: the loading line shows 'Failed to load
\* assets', and from then on nothing happens: no capability query, no gate,
\* no session request, no marker mode, no render loop, no second load.
C11_LoadFailureHalts ==
  /\ [][(lastEvent'.kind = "load" /\ lastEvent'.detail # "ok") =>
          (pc' = "halted" /\ loadingText' = "Failed to load assets")]_vars
  /\ [](loadingText = "Failed to load assets" =>
          /\ pc = "halted" /\ lastEvent.kind = "load"
          /\ ~clickListener /\ startAttempts = 0 /\ requestSessionCalls = 0
          /\ ~markerStarted /\ ~frameLoop /\ xrSession = "null"
          /\ ~ENABLED (LoadAssets \/ CheckSupport \/ EnterGate \/ Tap
                         \/ StartMarkerAnchoredMode \/ OnFrame))

\* init has halted on a shader fetch that failed.
C11_Witness ==
  /\ pc = "halted" /\ lastEvent = Event("load", "shaderFail")
  /\ loadingText = "Failed to load assets"

\* C12 (as claimed): every frame that is drawn had the registry's time
\* entry refreshed by updateUniforms earlier in the same callback.
C12_RefreshBeforeDraw ==
  lastEvent.kind = "frame" => lastDraw = "fresh"

\* C13 (as claimed): whenever a frame is drawn, every uniform name the
\* vertex and fragment shader sources declare is a key of the registry.
C13_UniformCompleteness ==
  lastEvent.kind = "frame" =>
    (VertexUniforms \cup FragmentUniforms(fragmentShader))
       \subseteq DOMAIN uniforms

\* Tracking is lost: no candidate pose and the reticle hidden.
TrackingLost == currentHitPose = NullPose /\ ~reticleVisible

\* A frame callback has just run.
FrameStep == lastEvent'.kind = "frame"

\* C14: before placement, a frame without a hit leaves tracking lost and
\* is no failure: no frame changes the status line, the error count or the
\* session; while tracking is lost every select is a no-op; and the first
\* frame with a hit pose shows the reticle at that pose and makes the next
\* select place the tree.
C14_TrackingLossRecovers ==
  /\ [][FrameStep =>
          UNCHANGED <<arStatus, errorCount, xrSession, sessionAlive,
                      onSessionEndCalls, pc, placed, treePlaced>>]_vars
  /\ [][(FrameStep /\ lastEvent'.detail = "miss") => TrackingLost']_vars
  /\ [][(SelectStep /\ ~placed /\ TrackingLost) =>
          (UNCHANGED placementVars /\ TrackingLost')]_vars
  /\ [][(FrameStep /\ lastEvent'.detail = "hit" /\ ~placed /\ TrackingLost) =>
          /\ reticleVisible' /\ currentHitPose' \in HitPoses
          /\ reticlePos' = currentHitPose'
          /\ ~SelectIgnored']_vars
  /\ [](~placed /\ sessionAlive /\ selectListener /\ ~SelectIgnored
          => ENABLED (OnSelect /\ placed'))

\* After a hit, a miss and a select that was ignored, a frame has found a
\* surface again: the reticle is back and nothing has been placed.
C14_Witness ==
  /\ lostSelect /\ ~placed /\ sessionAlive
  /\ lastEvent = Event("frame", "hit")
  /\ reticleVisible /\ currentHitPose \in HitPoses
  /\ errorCount = 0

\* C15: the placed flag is set only by the 'select' handler, never by a
\* frame callback, a tap, a setup step or the end of the session; a
\* session ends only by the platform's end event, never by a step of the
\* program; and until one of the two happens a live session that has not
\* placed stays as it is, with both the select and the end still possible.
C15_PlacedOnlyBySelect ==
  /\ [][(~placed /\ placed') => lastEvent'.kind = "select"]_vars
  /\ [][(~treePlaced /\ treePlaced') => lastEvent'.kind = "select"]_vars
  /\ [][(sessionAlive /\ ~sessionAlive') => lastEvent'.kind = "end"]_vars
  /\ [][(SessionLive /\ ~placed /\ lastEvent'.kind \notin {"select", "end"}) =>
          (SessionLive' /\ ~placed' /\ ~treePlaced'
             /\ "point-cloud" \notin sceneChildren')]_vars
  /\ [](SessionLive /\ ~placed => ENABLED OnSessionEnd)

\* A live session that has seen hits, misses and frames without a frame
\* object is still waiting for the select.
C15_Witness ==
  /\ SessionLive /\ ~placed /\ ~treePlaced
  /\ lastEvent = Event("frame", "noframe")
  /\ currentHitPose \in HitPoses /\ reticleVisible

\* The offsets a loader can leave on the mesh: none (vertices rewritten),
\* or the negated bounding-box centre.
LoadOffsets == {Origin} \cup { <<0 - c[1], 0 - c[2], 0 - c[3]>> : c \in Centres }

C17_FadeCompletes ==
  (treePlaced /\ placeTransforms = 1) =>
    /\ HasUniform(uniforms, "uOpacity")
    /\ (fadeAnimationFrameId # 0 \/ uniforms["uOpacity"] = 100)

\* C18 (as claimed): from load on the registry holds an opacity in [0,1],
\* which is 0 until the tree is placed, the instant it is added to the
\* scene included.
C18_OpacityRamp ==
  treeData # "null" =>
    /\ HasUniform(uniforms, "uOpacity")
    /\ uniforms["uOpacity"] \in 0..100
    /\ (fadeAnimationFrameId = 0 /\ placeTransforms = 0
          => uniforms["uOpacity"] = 0)

\* The buffer holds values above 1.0: it is byte-encoded.
ByteEncoded(buf) == \E i \in 1..Len(buf) : buf[i] > ByteScale

\* C19 (as claimed): once the normalisation has run, a buffer that arrived
\* normalised is unchanged, a byte-encoded buffer has every value divided
\* by 255 exactly once and all its values in [0,1], a further run changes
\* nothing, whatever the length and the arrangement of the buffer.
C19_ColourNormalisation ==
  colourPasses >= 1 =>
    /\ Len(colorArr) = Len(colorInput)
    /\ IF ByteEncoded(colorInput)
       THEN \A i \in 1..Len(colorArr) :
              /\ colorArr[i] = colorInput[i] \div ByteScale
              /\ colorArr[i] \in 0..ByteScale
       ELSE colorArr = colorInput

SessionFeatures == {"hit-test", "dom-overlay", "local-floor", "local", "viewer"}

\* A session estimates light only when the feature was requested.
LightEstimationAvailable == "light-estimation" \in SessionFeatures

White == <<100, 100, 100>>

\* The registry entries that could carry the ambient light: the names the
\* glow fragment source reads, and the registry's own ambient entry.
AmbientColourKeys == {"xrLightColor", "uAmbientColour", "uAmbientColor"}
AmbientIntensityKeys == {"xrLightIntensity", "uAmbientIntensity", "uAmbientBrightness"}

\* C21 (as claimed): without light estimation, after a frame the registry
\* holds an ambient-light colour entry equal to white (1,1,1) and an
\* ambient-light intensity entry equal to 1.0.  The registry declares no
\* ambient colour at all, and its only ambient entry stays at 0.3.
C21_AmbientDefaults ==
  (lastEvent.kind = "frame" /\ ~LightEstimationAvailable)
    => /\ \E k \in AmbientColourKeys :
            HasUniform(uniforms, k) /\ uniforms[k] = White
       /\ \E k \in AmbientIntensityKeys :
            HasUniform(uniforms, k) /\ uniforms[k] = 100

\* C22 (as claimed): once loadPointCloud has returned, the position buffer
\* is the buffer the PLY loader delivered, and posOffset holds one zero
\* triple per vertex, whatever runs afterwards.  The loader that returns
\* rewrites every vertex and sets no posOffset.
C22_AssetImmutable ==
  treeData # "null"
    => /\ positionArr = plyPositions
       /\ posOffset = ZeroOffsets(plyPositions)

\* C23: while the reticle exists it is visible exactly when there is a
\* candidate pose, after every frame callback and at every other moment; and
\* a select that places the tree does so from a state in which the reticle
\* exists and is shown.
C23_ReticleShowsCandidate ==
  /\ [](reticle => (reticleVisible <=> currentHitPose # NullPose))
  /\ [][(SelectStep /\ ~placed /\ placed') => (reticle /\ reticleVisible)]_vars

\* A frame without a result has hidden a reticle that an earlier frame had
\* shown at a hit position.
C23_Witness ==
  /\ lastEvent = Event("frame", "miss")
  /\ reticle /\ ~reticleVisible /\ currentHitPose = NullPose
  /\ reticlePos \in HitPoses

\* startWorldAR has begun: the click handler has called it.
WorldARBegun == RunningMode = "webxr" /\ startAttempts > 0

\* C24: in WebXR mode, from the start of startWorldAR on, the point cloud is
\* a child of the scene exactly when treePlaced is true, and treePlaced
\* equals the session's placed flag.
C24_PlacedMeansInScene ==
  WorldARBegun
    => /\ ("point-cloud" \in sceneChildren) <=> treePlaced
       /\ treePlaced <=> placed

\* A select has set placed and the tree stands in the scene.
C24_Witness ==
  /\ WorldARBegun
  /\ lastEvent = Event("select", "placed")
  /\ placed /\ treePlaced /\ "point-cloud" \in sceneChildren

\* C25 (as claimed): however an external session end interleaves with the
\* awaited setup steps, once the session has ended the end was handled: the
\* session, hit-test-source and reference-space references are null and
\* onSessionEnd has been invoked.  An end during the awaits finds no 'end'
\* listener, which is registered only after the last await.
C25_EndNeverBypassesCleanup ==
  lastEvent.kind = "end"
    => /\ lastEvent.detail = "handled"
       /\ xrSession = "null" /\ hitTestSource = "null"
       /\ referenceSpace = "null"
       /\ onSessionEndCalls > 0

\* The setup has completed on a live session without a hit-test source:
\* requestHitTestSource was rejected.  (stopHitTest, the other way to a null
\* source, marks the source cancelled; 'end' leaves the session dead.)
HitTestFailed ==
  /\ setupStep = "live" /\ sessionAlive
  /\ hitTestSource = "null" /\ ~hitTestCancelled

\* C26: when the hit-test source could not be created, the setup still
\* completes and shows the placement prompt, not a failure; for the rest of
\* the session the reticle stays hidden, the candidate pose stays null, and
\* no select places the tree.
C26_NoSourceNoPlacement ==
  HitTestFailed
    => /\ pc = "done" /\ errorCount = 0
       /\ arStatus.text # FailedStatus("").text
       /\ reticle /\ ~reticleVisible
       /\ currentHitPose = NullPose
       /\ ~placed /\ ~treePlaced /\ "point-cloud" \notin sceneChildren

\* A select has arrived in a session without a hit-test source and was
\* ignored.
C26_Witness ==
  /\ HitTestFailed
  /\ lastEvent = Event("select", "ignored")
  /\ earlySelect

\* C27: a frame whose first hit-test result has no resolvable pose leaves
\* the reticle's visibility, the reticle's position and the candidate pose
\* as they were; the candidate pose, when there is one, is the pose of the
\* last frame that resolved one (where the reticle stands), and a select
\* places the tree there.
C27_UnresolvedPoseKeepsCandidate ==
  /\ [][(FrameStep /\ lastEvent'.detail = "nopose")
          => UNCHANGED <<reticleVisible, reticlePos, currentHitPose>>]_vars
  /\ [](currentHitPose # NullPose => currentHitPose = reticlePos)
  /\ [][(SelectStep /\ lastEvent'.detail = "placed")
          => meshPos' = PlacedPosition(meshPos, reticlePos)]_vars

\* A frame with an unresolved pose has run while a candidate of an earlier
\* frame was shown, and the candidate is still there.
C27_Witness ==
  /\ lastEvent = Event("frame", "nopose")
  /\ reticle /\ reticleVisible
  /\ currentHitPose \in HitPoses

\* The registry keys host code dereferences, by the place that does it.
HostKeys ==
  { [site |-> "updateUniforms", key |-> "time"],
    [site |-> "loadPointCloud (mesh-level)", key |-> "uOpacity"],
    [site |-> "startOpacityFadeIn", key |-> "uOpacity"],
    [site |-> "startMarkerAnchoredMode", key |-> "uOpacity"],
    [site |-> "loadPointCloud (baked)", key |-> "uFadeProgress"],
    [site |-> "loadPointCloud (baked)", key |-> "uTreeHeight"] }

\* C28 (as claimed): every key host code reads or writes is declared in the
\* registry, so no load and no select or frame fails on an undefined entry.
\* The registry declares neither time nor uOpacity.
C28_HostKeysDeclared ==
  /\ \A w \in HostKeys : HasUniform(uniforms, w.key)
  /\ lastEvent # Event("load", "threw")
  /\ errorCount = 0

\* C29: waitForMarkerDetection resolves at most once, and it does so in the
\* first tick that finds the source ready and the probe visible; from then
\* on no animation frame is pending, the resize listener is removed, the
\* stream's tracks are stopped, the source and context references are null
\* and the canvas is shown again; init enters the gate only after the
\* detection has resolved or failed.
C29_MarkerSeekResolvesOnce ==
  /\ [](resolveCount <= 1)
  /\ [][resolveCount' # resolveCount
          => /\ resolveCount' = resolveCount + 1
             /\ seekStep = "polling"
             /\ lastEvent' = Event("poll", "visible")]_vars
  /\ [][(seekStep = "polling" /\ lastEvent' = Event("poll", "visible"))
          => resolveCount' = resolveCount + 1]_vars
  /\ [](seekStep = "resolved"
          => /\ resolveCount = 1
             /\ ~tickPending /\ animFrameId = 0
             /\ ~resizeListening /\ ~resizeHandler
             /\ cameraTracks = "stopped"
             /\ arToolkitSource = "null" /\ arToolkitContext = "null"
             /\ ~canvasHidden)
  /\ [][(pc = "detect" /\ pc' = "gate")
          => seekStep \in {"resolved", "failed"}]_vars
  /\ [](pc = "gate" => seekStep \in {"resolved", "failed"})

\* The marker was found after polls that did not find it, and init has
\* gone on to the gate.
C29_Witness ==
  /\ seekStep = "resolved" /\ resolveCount = 1
  /\ pollCount > 0
  /\ pc = "gate" /\ clickListener

\* C30 (as claimed): every fade factor update() computes after start() lies
\* in [0,1]; it is 0 when update() runs at the moment of start(), and 1 once
\* delay + fadeInDuration milliseconds have passed since start(), whatever
\* performance.now() was at start().  The source that subtracts the absolute
\* start time from the clock's elapsed time computes a negative factor for
\* every start time other than 0.
C30_FadeFactorInUnitRange ==
  (isActive /\ fadeAt >= 0)
    => /\ fadeFactor >= 0 /\ fadeFactor <= 100
       /\ (fadeAt = startTime => fadeFactor = 0)
       /\ (fadeAt - startTime >= FloatConfig(floatVariant).delay
                                   + FloatConfig(floatVariant).fadeInDuration
             => fadeFactor = 100)

Next ==
  \/ LoadAssets
  \/ CheckSupport
  \/ EnterGate
  \/ StartMarkerAnchoredMode
  \/ MarkerTrackingSettles
  \/ Tap
  \/ RequestSessionSettles
  \/ SetSessionSettles
  \/ ViewerSpaceSettles
  \/ ReferenceSpaceSettles
  \/ HitTestSourceSettles
  \/ OnFrame
  \/ OnSelect
  \/ OnSessionEnd
  \/ SessionEndsUnheard

Spec == Init /\ [][Next]_vars

\* The loader's work on the geometry's attributes, on its own: the inputs
\* are the colour buffers a PLY can deliver and the vertex counts.
LoaderInit ==
  /\ InitApp /\ NoAnimation /\ mode = "auto" /\ navXR = "full"
  /\ colorInput \in ByteBuffers \cup UnitBuffers
  /\ colorArr = colorInput /\ colourPasses = 0
  /\ roles = <<>> /\ prevRoles = <<>>

LoaderNext ==
  \/ RunColourNormalisation
  \/ AssignRoles

LoaderSpec == LoaderInit /\ [][LoaderNext]_vars

\* The variant of init() with the marker phase, in WebXR mode.
MarkerInit ==
  /\ InitApp /\ NoAnimation /\ mode = "auto"
  /\ colorInput = <<>> /\ colorArr = <<>> /\ colourPasses = 0
  /\ roles = <<>> /\ prevRoles = <<>>

MarkerNext ==
  \/ LoadAssets
  \/ CheckSupport
  \/ DetectMarker
  \/ LoadARjsSettles
  \/ SourceReady
  \/ ContextReady
  \/ PollTick
  \/ EnterGateAfterSeek

MarkerSpec == MarkerInit /\ [][MarkerNext]_vars

\* A FloatingAnimation instance of any of the three sources, constructed at
\* any time of the page's clock.
FloatInit ==
  /\ InitApp /\ mode = "auto" /\ navXR = "full"
  /\ colorInput = <<>> /\ colorArr = <<>> /\ colourPasses = 0
  /\ roles = <<>> /\ prevRoles = <<>>
  /\ floatVariant \in FloatVariants
  /\ nowMs \in StartTimes

FloatNext ==
  \/ Advance
  \/ FloatStart
  \/ FloatUpdate

FloatSpec == FloatInit /\ [][FloatNext]_vars
====
